---- MODULE Spec2Model ----
(***************************************************************************)
(* A model of the ffgo FFmpeg shim (shim/ffshim.c, shim/ffshim.h), built   *)
(* with FFSHIM_HAVE_AVDEVICE defined.                                      *)
(*                                                                         *)
(* The shim is a set of independent forwarding functions, so the model has *)
(* one specification per subsystem:                                        *)
(*   SpecFmt      logging bridge, calls run one after another              *)
(*   SpecLog      logging bridge, a logging thread and an installing       *)
(*                thread interleaved statement by statement                *)
(*   SpecChapter  ffshim_new_chapter                                       *)
(*   SpecDevice   ffshim_avdevice_list_input_sources                       *)
(*   SpecAccess   the codec-parameter and codec-context accessors          *)
(*   SpecNull     every pointer-taking function, called with a null        *)
(*                pointer argument                                         *)
(* The native library (av_log, av_mallocz, av_realloc_array,               *)
(* av_find_input_format, avdevice_list_input_sources, ...) is the          *)
(* environment: its results are chosen nondeterministically.               *)
(***************************************************************************)
EXTENDS Integers, Sequences, FiniteSets, TLC

VARIABLES
  \* ---- logging bridge ----
  g_log_callback,     \* static ffshim_log_callback_t g_log_callback
  av_log_callback,    \* the native library's callback: "default" | "internal"
  lastCb,             \* history: argument of the last ffshim_log_set_callback
  delivery,           \* history: last invocation of a sink, or NoDelivery
  logPc,              \* logging thread: position in internal_log_callback
  logMsg,             \* logging thread: the formatted message (fmt, vl)
  logTested,          \* logging thread: g_log_callback as read at line 32
  logBuf,             \* logging thread: char buf[4096] after lines 37-42
  logClean,           \* history: no store to g_log_callback since line 32
  logBegun,           \* history: the message was logged after the last
                      \* ffshim_log_set_callback call had returned
  logOutcome,         \* history: how the last internal_log_callback ended
  setPc,              \* installing thread: position in ffshim_log_set_callback
  setArg,             \* installing thread: the argument cb
  \* ---- chapters ----
  fc,                 \* the AVFormatContext: chapters array, nb_chapters
  heap,               \* AVChapter records by handle
  nextHandle,         \* next handle av_mallocz returns
  chCalls,            \* history: every ffshim_new_chapter call
  \* ---- device enumeration ----
  g_avdevice_registered, \* static int g_avdevice_registered
  registerCalls,      \* history: executions of avdevice_register_all
  devCalls,           \* history: 1 once a call has been made, 0 before
  devLast,            \* history: the last call, its outputs, its native calls
  \* ---- accessors ----
  cctx,               \* the AVCodecContext
  cpar,               \* the AVCodecParameters
  accLast             \* history: the last accessor / null-argument call

logVars == <<g_log_callback, av_log_callback, lastCb, delivery, logPc, logMsg,
             logTested, logBuf, logClean, logBegun, logOutcome, setPc, setArg>>
chVars == <<fc, heap, nextHandle, chCalls>>
devVars == <<g_avdevice_registered, registerCalls, devCalls, devLast>>
accVars == <<cctx, cpar, accLast>>
vars == <<logVars, chVars, devVars, accVars>>

NULL == "NULL"

\* ---- bounds of the model ----
MaxTail == 2        \* characters after the run of filler characters
MaxOver == 2        \* how far a message may exceed the buffer
MaxChCalls == 4     \* ffshim_new_chapter calls
MaxDevices == 2     \* devices in a native list

Min(a, b) == IF a < b THEN a ELSE b

(***************************************************************************)
(* LOGGING SUBSYSTEM                                                       *)
(***************************************************************************)

BufSize == 4096     \* char buf[4096]

\* The sinks the caller may install.
Sinks == {"cb1", "cb2"}

\* A message is a run of `pad` filler characters followed by `tail`, a short
\* sequence of characters none of which is the filler character.
NL == "\n"
TailChars == {NL, "x"}

RECURSIVE SeqsUpTo(_, _)
SeqsUpTo(S, n) ==
  IF n = 0 THEN {<<>>}
  ELSE LET shorter == SeqsUpTo(S, n - 1)
       IN shorter \cup {Append(s, c) : s \in {t \in shorter : Len(t) = n - 1}, c \in S}

Pads == 0..1 \cup ((BufSize - MaxTail - 1)..(BufSize + MaxOver))
Msgs == [pad : Pads, tail : SeqsUpTo(TailChars, MaxTail)]
RaceMsgs == {[pad |-> 1, tail |-> <<NL>>], [pad |-> 2, tail |-> <<>>]}

StrLen(m) == m.pad + Len(m.tail)
CharAt(m, i) == IF i <= m.pad THEN "a" ELSE m.tail[i - m.pad]   \* 1-based
Prefix(m, n) ==
  IF n <= m.pad THEN [pad |-> n, tail |-> <<>>]
  ELSE [pad |-> m.pad, tail |-> SubSeq(m.tail, 1, n - m.pad)]

\* vsnprintf(buf, size, fmt, vl): returns the length of the whole formatted
\* message and stores at most size-1 characters of it, then the terminator.
vsnprintf(size, m) == [len |-> StrLen(m), buf |-> Prefix(m, Min(StrLen(m), size - 1))]

\* The trailing-newline test of line 40; buf[len-1] is the len-th character.
StripTest(len, buf) == len > 0 /\ len < BufSize /\ CharAt(buf, len) = NL

\* Lines 36-42: the string left in buf.
FormatAllNewlines(m) ==
  LET r == vsnprintf(BufSize, m)
      RECURSIVE strip(_)
      strip(b) == IF StrLen(b) > 0 /\ CharAt(b, StrLen(b)) = NL
                  THEN strip(Prefix(b, StrLen(b) - 1)) ELSE b
  IN IF r.len < BufSize THEN strip(r.buf) ELSE r.buf
FormatMessage(m) ==
  LET r == vsnprintf(BufSize, m)
  IN IF StripTest(r.len, r.buf) THEN Prefix(r.buf, r.len - 1) ELSE r.buf

NoDelivery == [sink |-> NULL, raw |-> NULL, out |-> NULL]
NoRun == [tested |-> "none", invoked |-> "nothing", clean |-> TRUE, begun |-> TRUE,
          current |-> "none"]

\* Line 32: the test that makes internal_log_callback return at once.
NoSinkNever(g) == FALSE
NoSink(g) == g = NULL

\* Lines 50-54: the callback handed to av_log_set_callback.
InstalledAlwaysInternal(cb) == "internal"
Installed(cb) == IF cb # NULL THEN "internal" ELSE "default"

\* internal_log_callback run from entry to return, nothing interleaved.
internal_log_callback(m) ==
  IF NoSink(g_log_callback)
  THEN /\ logOutcome' = [tested |-> g_log_callback, invoked |-> "nothing", clean |-> TRUE,
                         begun |-> TRUE, current |-> lastCb]
       /\ UNCHANGED delivery
  ELSE /\ logOutcome' = [tested |-> g_log_callback, invoked |-> g_log_callback,
                         clean |-> TRUE, begun |-> TRUE, current |-> lastCb]
       /\ delivery' = [sink |-> g_log_callback, raw |-> m, out |-> FormatMessage(m)]

\* ffshim_log_set_callback run from entry to return.
ffshim_log_set_callback(cb) ==
  /\ setPc = "idle" /\ logPc = "idle"
  /\ g_log_callback' = cb
  /\ av_log_callback' = Installed(cb)
  /\ lastCb' = cb
  /\ UNCHANGED <<delivery, logPc, logMsg, logTested, logBuf, logClean, logBegun,
                 logOutcome, setPc, setArg>>

\* ffshim_log(avcl, level, msg): av_log(avcl, level, "%s", msg) hands the
\* message to the callback the native library holds.
ffshim_log(m) ==
  /\ setPc = "idle" /\ logPc = "idle"
  /\ IF av_log_callback = "internal"
     THEN internal_log_callback(m)
     ELSE /\ logOutcome' = NoRun
          /\ UNCHANGED delivery
  /\ UNCHANGED <<g_log_callback, av_log_callback, lastCb, logPc, logMsg, logTested,
                 logBuf, logClean, logBegun, setPc, setArg>>

(***************************************************************************)
(* The same two functions, statement by statement, for two threads with no *)
(* serialization between them.                                             *)
(***************************************************************************)

\* The native library calls the callback it holds; here internal_log_callback.
log_enter(m) ==
  /\ logPc = "idle" /\ av_log_callback = "internal"
  /\ logPc' = "L32"
  /\ logMsg' = m
  /\ logBegun' = (setPc = "idle")
  /\ UNCHANGED <<g_log_callback, av_log_callback, lastCb, delivery, logTested, logBuf,
                 logClean, logOutcome, setPc, setArg>>

\* The native library calls av_log_default_callback: no shim code runs.
log_default(m) ==
  /\ logPc = "idle" /\ av_log_callback = "default"
  /\ logOutcome' = NoRun
  /\ UNCHANGED <<g_log_callback, av_log_callback, lastCb, delivery, logPc, logMsg,
                 logTested, logBuf, logClean, logBegun, setPc, setArg>>

\* Lines 32-34.
log_test ==
  /\ logPc = "L32"
  /\ logTested' = g_log_callback
  /\ logClean' = TRUE
  /\ IF NoSink(g_log_callback)
     THEN /\ logPc' = "idle"
          /\ logOutcome' = [tested |-> g_log_callback, invoked |-> "nothing",
                            clean |-> TRUE, begun |-> logBegun, current |-> lastCb]
     ELSE /\ logPc' = "L37"
          /\ UNCHANGED logOutcome
  /\ UNCHANGED <<g_log_callback, av_log_callback, lastCb, delivery, logMsg, logBuf,
                 logBegun, setPc, setArg>>

\* Lines 36-42.
log_format ==
  /\ logPc = "L37"
  /\ logBuf' = FormatMessage(logMsg)
  /\ logPc' = "L44"
  /\ UNCHANGED <<g_log_callback, av_log_callback, lastCb, delivery, logMsg, logTested,
                 logClean, logBegun, logOutcome, setPc, setArg>>

\* Line 44 reads the global again.  g_log_callback is a plain global: when
\* another thread stored to it since line 32 the two reads race, and the
\* build may call the value it kept from line 32 or the value it reads now.
CalledPointers == {logTested, g_log_callback}

\* Line 44.  A call through a null pointer ends the process.
log_call ==
  /\ logPc = "L44"
  /\ \E p \in CalledPointers :
       /\ logOutcome' = [tested |-> logTested, invoked |-> p, clean |-> logClean,
                         begun |-> logBegun, current |-> lastCb]
       /\ IF p = NULL
          THEN /\ logPc' = "crashed"
               /\ UNCHANGED delivery
          ELSE /\ logPc' = "idle"
               /\ delivery' = [sink |-> p, raw |-> logMsg, out |-> logBuf]
  /\ UNCHANGED <<g_log_callback, av_log_callback, lastCb, logMsg, logTested, logBuf,
                 logClean, logBegun, setPc, setArg>>

\* Line 49.
set_store(cb) ==
  /\ setPc = "idle" /\ logPc # "crashed"
  /\ g_log_callback' = cb
  /\ setArg' = cb
  /\ setPc' = "L50"
  /\ logClean' = IF logPc \in {"L37", "L44"} THEN FALSE ELSE logClean
  /\ logBegun' = IF logPc # "idle" THEN FALSE ELSE logBegun
  /\ UNCHANGED <<av_log_callback, lastCb, delivery, logPc, logMsg, logTested, logBuf,
                 logOutcome>>

\* Lines 50-55.
set_install ==
  /\ setPc = "L50" /\ logPc # "crashed"
  /\ av_log_callback' = Installed(setArg)
  /\ lastCb' = setArg
  /\ setPc' = "idle"
  /\ logBegun' = IF logPc # "idle" THEN FALSE ELSE logBegun
  /\ UNCHANGED <<g_log_callback, delivery, logPc, logMsg, logTested, logBuf, logClean,
                 logOutcome, setArg>>

LogInit ==
  /\ g_log_callback = NULL
  /\ av_log_callback = "default"
  /\ lastCb = "none"
  /\ delivery = NoDelivery
  /\ logPc = "idle"
  /\ logMsg = NULL
  /\ logTested = NULL
  /\ logBuf = NULL
  /\ logClean = TRUE
  /\ logBegun = TRUE
  /\ logOutcome = NoRun
  /\ setPc = "idle"
  /\ setArg = NULL

(***************************************************************************)
(* CHAPTER HELPERS                                                         *)
(***************************************************************************)

\* The argument tuples the caller passes; meta says whether a dictionary is
\* passed or a null metadata pointer.
\* Heap handles are positive integers; the null pointer is 0.
NullPtr == 0
Uninit == -1

ChapterArgs ==
  { [id |-> 7, tb_num |-> 1, tb_den |-> 1000, start |-> 0, end |-> 90, meta |-> "dict"],
    [id |-> 8, tb_num |-> 1001, tb_den |-> 30000, start |-> 90, end |-> 250, meta |-> NULL] }

\* What the native allocator does during one call.
AllocOutcomes == {"nomem", "norealloc", "moved", "inplace"}

\* Lines 146-155: the zeroed AVChapter with its fields assigned.
ChapterRecordSwapped(id, tb_num, tb_den, start, end, metadata) ==
  [id |-> id, tb_num |-> tb_num, tb_den |-> tb_den, start |-> end, end |-> start,
   metadata |-> metadata, live |-> TRUE]
ChapterRecord(id, tb_num, tb_den, start, end, metadata) ==
  [id |-> id, tb_num |-> tb_num, tb_den |-> tb_den, start |-> start, end |-> end,
   metadata |-> metadata, live |-> TRUE]

\* Line 158.  newCount is an unsigned int: the sum wraps at 2^32, a count no
\* run of this model comes near (at most MaxChCalls chapters are appended).
NewCount(nb) == nb + 1

\* Line 159: av_realloc_array gives an array of newCount slots that keeps the
\* old entries; the added slot is not initialised.
ReallocArray(arr, newCount) ==
  [i \in 1..newCount |-> IF i <= Len(arr) THEN arr[i] ELSE Uninit]

\* Line 166: the slot fc->chapters[fc->nb_chapters], counted from 1.
StoreSlot(nb) == nb + 1

\* Lines 160-164: what the failed reallocation leaves of the new chapter.
AfterReallocFailureKept(rec) == rec
AfterReallocFailure(rec) == [rec EXCEPT !.live = FALSE]

\* Lines 165-167.
AppendChapter(f, newArr, addr, ch, newCount) ==
  [addr |-> addr, chapters |-> [newArr EXCEPT ![StoreSlot(f.nb_chapters)] = ch],
   nb_chapters |-> newCount]

\* ffshim_new_chapter(ctx, id, tb_num, tb_den, start, end, metadata) called on
\* the context f with the heap hp, a holding the arguments after ctx: the
\* context, the heap and the allocator's next handle on return, and the call
\* with its return value.
NewChapter(f, hp, next, ctx, a, alloc) ==
  LET call == [ctx |-> ctx, args |-> a, before |-> f]
      result(f2, hp2, next2, malloc, realloc, ch, ret) ==
        [fc |-> f2, heap |-> hp2, nextHandle |-> next2,
         call |-> call @@ [malloc |-> malloc, realloc |-> realloc, ch |-> ch, ret |-> ret]]
  IN IF ctx = NULL
     THEN result(f, hp, next, "notcalled", "notcalled", NullPtr, NullPtr)
     ELSE IF alloc = "nomem"
     THEN result(f, hp, next, "fail", "notcalled", NullPtr, NullPtr)
     ELSE
       LET ch == next
           rec == ChapterRecord(a.id, a.tb_num, a.tb_den, a.start, a.end, a.meta)
           newCount == NewCount(f.nb_chapters)
           withCh(r) == [h \in DOMAIN hp \cup {ch} |-> IF h = ch THEN r ELSE hp[h]]
       IN IF alloc = "norealloc"
          THEN result(f, withCh(AfterReallocFailure(rec)), next + 1, "ok", "fail", ch, NullPtr)
          ELSE
            LET moved == alloc = "moved" \/ f.addr = NullPtr
                addr == IF moved THEN next + 1 ELSE f.addr
                newArr == ReallocArray(f.chapters, newCount)
            IN result(AppendChapter(f, newArr, addr, ch, newCount), withCh(rec),
                      IF moved THEN next + 2 ELSE next + 1, "ok", "ok", ch, ch)

\* One call.  The caller first builds the metadata dictionary it passes, if it
\* passes one.
ffshim_new_chapter(ctx, a, alloc) ==
  /\ Len(chCalls) < MaxChCalls
  /\ LET metadata == IF a.meta = NULL THEN NullPtr ELSE nextHandle
         heap0 == IF metadata = NullPtr THEN heap
                  ELSE [h \in DOMAIN heap \cup {metadata} |->
                          IF h = metadata THEN [kind |-> "dict", live |-> TRUE] ELSE heap[h]]
         next0 == IF metadata = NullPtr THEN nextHandle ELSE nextHandle + 1
         r == NewChapter(fc, heap0, next0, ctx, [a EXCEPT !.meta = metadata], alloc)
     IN /\ fc' = r.fc
        /\ heap' = r.heap
        /\ nextHandle' = r.nextHandle
        /\ chCalls' = Append(chCalls, r.call)

ChInit ==
  /\ fc = [addr |-> NullPtr, chapters |-> <<>>, nb_chapters |-> 0]
  /\ heap = <<>>
  /\ nextHandle = 1
  /\ chCalls = <<>>

(***************************************************************************)
(* AVDEVICE HELPERS                                                        *)
(***************************************************************************)

AVERROR_EINVAL == -22   \* AVERROR(EINVAL)
AVERROR_ENOMEM == -12   \* AVERROR(ENOMEM)
AVERROR_EIO == -5       \* a failure code of the native enumeration

\* What the caller's output locations hold before the call.
JunkCount == -99
NullArr == [null |-> TRUE, elems |-> <<>>]
JunkArr == [null |-> FALSE, elems |-> <<"junk">>]
Arr(elems) == [null |-> FALSE, elems |-> elems]

FormatNames == {NULL, "", "v4l2", "nosuch"}
DeviceNames == {NULL, "", "/dev/video0"}
\* The names av_find_input_format resolves.
KnownFormats == {"v4l2"}

\* An AVDeviceInfo pointer in list->devices: a null pointer, or a record whose
\* strings may be null.
NullDev == [null |-> TRUE, device_name |-> NULL, device_description |-> NULL]
Devices ==
  { NullDev,
    [null |-> FALSE, device_name |-> "/dev/video0", device_description |-> "USB Camera"],
    [null |-> FALSE, device_name |-> NULL, device_description |-> NULL] }

\* What avdevice_list_input_sources leaves in `list`: nothing, or a list
\* whose nb_devices is the number of its devices, or a list with a negative
\* nb_devices.
NullList == [null |-> TRUE, nb_devices |-> 0, devices |-> <<>>]
NativeLists ==
  {NullList, [null |-> FALSE, nb_devices |-> -1, devices |-> <<>>]}
  \cup {[null |-> FALSE, nb_devices |-> Len(d), devices |-> d] : d \in SeqsUpTo(Devices, MaxDevices)}
NativeRets == {AVERROR_EIO, 0, 1}

\* Which allocations of one call succeed: the names array, the descs array,
\* and the index of the device whose name av_strdup cannot copy (0: none).
AllocOk == [names |-> TRUE, descs |-> TRUE, strdupFail |-> 0]
AllocEnvs ==
  {[names |-> n, descs |-> d, strdupFail |-> 0] : n, d \in BOOLEAN}
  \cup {[names |-> TRUE, descs |-> TRUE, strdupFail |-> i] : i \in 1..MaxDevices}

\* Lines 218-221.
RegisterAlways(registered) == [run |-> TRUE, flag |-> registered]
Register(registered) ==
  IF registered = 0 THEN [run |-> TRUE, flag |-> 1] ELSE [run |-> FALSE, flag |-> registered]

\* Lines 214-216 and 223-226: the format name is refused.
FormatMissing(format_name) == format_name = NULL \/ format_name = ""
FormatUnknownAccepted(format_name) == FALSE
FormatUnknown(format_name) == format_name \notin KnownFormats

\* Line 232: the device name handed to the native routine.
PassedDeviceName(device_name) ==
  IF device_name # NULL /\ device_name # "" THEN device_name ELSE NULL

\* Lines 261-264.
DupName(dev, ok) ==
  IF ~ok THEN NULL
  ELSE IF ~dev.null /\ dev.device_name # NULL THEN dev.device_name ELSE ""
DupDesc(dev) ==
  IF ~dev.null /\ dev.device_description # NULL THEN dev.device_description ELSE ""

\* Lines 241-246: the native routine reported no devices.
NoDevicesNullOnly(list) == list.null
NoDevices(list) == list.null \/ list.nb_devices <= 0

\* Lines 235-240: the list is released on the failure path.
FailureFrees(list) == IF ~list.null THEN <<"avdevice_free_list_devices">> ELSE <<>>

\* The whole function.  outs says which output pointers are non-null; the
\* result gives the return code, what the output locations hold on return,
\* the flag, and the native calls made, in order.
ListInputSources(format_name, device_name, outs, registered, nret, nlist, env) ==
  LET untouched == [out_count |-> JunkCount, out_names |-> JunkArr, out_descs |-> JunkArr]
      zeroed == [out_count |-> 0, out_names |-> NullArr, out_descs |-> NullArr]
      result(ret, o, flag, trace, native) ==
        [ret |-> ret, out |-> o, flag |-> flag, trace |-> trace, native |-> native]
      none == [called |-> FALSE, ret |-> 0, list |-> NullList, device |-> NULL,
               env |-> AllocOk]
  IN IF ~outs.count \/ ~outs.names \/ ~outs.descs
     THEN result(AVERROR_EINVAL, untouched, registered, <<>>, none)
     ELSE IF FormatMissing(format_name)
     THEN result(AVERROR_EINVAL, zeroed, registered, <<>>, none)
     ELSE
       LET reg == Register(registered)
           t1 == (IF reg.run THEN <<"avdevice_register_all">> ELSE <<>>)
                   \o <<"av_find_input_format">>
       IN IF FormatUnknown(format_name)
          THEN result(AVERROR_EINVAL, zeroed, reg.flag, t1, none)
          ELSE
            LET native == [called |-> TRUE, ret |-> nret, list |-> nlist,
                           device |-> PassedDeviceName(device_name), env |-> env]
                t2 == t1 \o <<"avdevice_list_input_sources">>
                free == <<"avdevice_free_list_devices">>
            IN IF nret < 0
               THEN result(nret, zeroed, reg.flag, t2 \o FailureFrees(nlist), native)
               ELSE IF NoDevices(nlist)
               THEN result(0, zeroed, reg.flag,
                           t2 \o (IF ~nlist.null THEN free ELSE <<>>), native)
               ELSE
                 LET count == nlist.nb_devices
                 IN IF ~env.names \/ ~env.descs
                    THEN result(AVERROR_ENOMEM, zeroed, reg.flag, t2 \o free, native)
                    ELSE
                      LET names == [i \in 1..count |->
                                      DupName(nlist.devices[i], env.strdupFail # i)]
                          descs == [i \in 1..count |-> DupDesc(nlist.devices[i])]
                      IN result(0, [out_count |-> count, out_names |-> Arr(names),
                                    out_descs |-> Arr(descs)],
                                reg.flag, t2 \o free, native)

NoDevCall ==
  [format_name |-> NULL, outs |-> [count |-> FALSE, names |-> FALSE, descs |-> FALSE],
   registeredBefore |-> 0, reachedEver |-> FALSE, ret |-> 0,
   out |-> [out_count |-> JunkCount, out_names |-> JunkArr, out_descs |-> JunkArr],
   trace |-> <<>>,
   native |-> [called |-> FALSE, ret |-> 0, list |-> NullList, device |-> NULL,
               env |-> AllocOk]]

Count(seq, x) == Cardinality({i \in 1..Len(seq) : seq[i] = x})

ffshim_avdevice_list_input_sources(format_name, device_name, outs, nret, nlist, env) ==
  /\ LET r == ListInputSources(format_name, device_name, outs, g_avdevice_registered,
                               nret, nlist, env)
         reached == outs.count /\ outs.names /\ outs.descs
                    /\ format_name # NULL /\ format_name # ""
     IN /\ g_avdevice_registered' = r.flag
        /\ registerCalls' = registerCalls + Count(r.trace, "avdevice_register_all")
        /\ devLast' = [format_name |-> format_name, outs |-> outs,
                       registeredBefore |-> g_avdevice_registered,
                       reachedEver |-> devLast.reachedEver \/ reached,
                       ret |-> r.ret, out |-> r.out, trace |-> r.trace,
                       native |-> r.native]
  /\ devCalls' = 1

DevInit ==
  /\ g_avdevice_registered = 0
  /\ registerCalls = 0
  /\ devCalls = 0
  /\ devLast = NoDevCall

(***************************************************************************)
(* CODEC FIELD HELPERS                                                     *)
(***************************************************************************)

\* AVCodecParameters: read only through the shim.
ffshim_codecpar_width(par, p) == IF par = NULL THEN 0 ELSE p.width
ffshim_codecpar_height(par, p) == IF par = NULL THEN 0 ELSE p.height
ffshim_codecpar_format(par, p) == IF par = NULL THEN -1 ELSE p.format
ffshim_codecpar_sample_rate(par, p) == IF par = NULL THEN 0 ELSE p.sample_rate
ffshim_codecpar_channels(par, p) == IF par = NULL THEN 0 ELSE p.nb_channels

\* AVCodecContext getters: c is the structure ctx points to.
ffshim_codecctx_width(ctx, c) == IF ctx = NULL THEN 0 ELSE c.width
ffshim_codecctx_height(ctx, c) == IF ctx = NULL THEN 0 ELSE c.height
ffshim_codecctx_pix_fmt(ctx, c) == IF ctx = NULL THEN -1 ELSE c.pix_fmt
\* declared in ffshim.h, not defined in ffshim.c
ffshim_codecctx_sample_fmt(ctx, c) == IF ctx = NULL THEN -1 ELSE c.sample_fmt

\* AVCodecContext setters: the structure after the call.
ffshim_codecctx_set_width(ctx, c, width) ==
  IF ctx = NULL THEN c ELSE [c EXCEPT !.width = width]
ffshim_codecctx_set_height(ctx, c, height) ==
  IF ctx = NULL THEN c ELSE [c EXCEPT !.height = height]
ffshim_codecctx_set_pix_fmt(ctx, c, pix_fmt) ==
  IF ctx = NULL THEN c ELSE [c EXCEPT !.pix_fmt = pix_fmt]
\* declared in ffshim.h, not defined in ffshim.c
ffshim_codecctx_set_sample_fmt(ctx, c, sample_fmt) ==
  IF ctx = NULL THEN c ELSE [c EXCEPT !.sample_fmt = sample_fmt]
\* declared in ffshim.h, not defined in ffshim.c
ffshim_codecctx_set_ch_layout_default(ctx, c, nb_channels) ==
  IF ctx = NULL THEN c ELSE [c EXCEPT !.nb_channels = nb_channels]
ffshim_codecctx_set_time_base(ctx, c, num, den) ==
  IF ctx = NULL THEN c ELSE [c EXCEPT !.time_base = <<num, den>>]
ffshim_codecctx_set_framerate_as_time_base(ctx, c, num, den) ==
  IF ctx = NULL THEN c ELSE [c EXCEPT !.time_base = <<num, den>>]
ffshim_codecctx_set_framerate(ctx, c, num, den) ==
  IF ctx = NULL THEN c ELSE [c EXCEPT !.framerate = <<num, den>>]

\* An output location holds Junk until the shim stores to it.  given says
\* which of the two output pointers are non-null; the result is what the two
\* locations hold on return.
Junk == -99
ffshim_codecctx_time_base(ctx, c, given) ==
  IF ctx = NULL \/ ~given[1] \/ ~given[2] THEN <<Junk, Junk>>
  ELSE <<c.time_base[1], c.time_base[2]>>
ffshim_codecctx_framerate(ctx, c, given) ==
  IF ctx = NULL \/ ~given[1] \/ ~given[2] THEN <<Junk, Junk>>
  ELSE <<c.framerate[1], c.framerate[2]>>

ParGetters == {"ffshim_codecpar_width", "ffshim_codecpar_height", "ffshim_codecpar_format",
               "ffshim_codecpar_sample_rate", "ffshim_codecpar_channels"}
CtxGetters == {"ffshim_codecctx_width", "ffshim_codecctx_height", "ffshim_codecctx_pix_fmt",
               "ffshim_codecctx_sample_fmt"}
CtxSetters == {"ffshim_codecctx_set_width", "ffshim_codecctx_set_height",
               "ffshim_codecctx_set_pix_fmt", "ffshim_codecctx_set_sample_fmt",
               "ffshim_codecctx_set_ch_layout_default"}
CtxRatGetters == {"ffshim_codecctx_time_base", "ffshim_codecctx_framerate"}
CtxRatSetters == {"ffshim_codecctx_set_time_base", "ffshim_codecctx_set_framerate"}

ParGet(fn, par, p) ==
  CASE fn = "ffshim_codecpar_width" -> ffshim_codecpar_width(par, p)
    [] fn = "ffshim_codecpar_height" -> ffshim_codecpar_height(par, p)
    [] fn = "ffshim_codecpar_format" -> ffshim_codecpar_format(par, p)
    [] fn = "ffshim_codecpar_sample_rate" -> ffshim_codecpar_sample_rate(par, p)
    [] fn = "ffshim_codecpar_channels" -> ffshim_codecpar_channels(par, p)
CtxGet(fn, ctx, c) ==
  CASE fn = "ffshim_codecctx_width" -> ffshim_codecctx_width(ctx, c)
    [] fn = "ffshim_codecctx_height" -> ffshim_codecctx_height(ctx, c)
    [] fn = "ffshim_codecctx_pix_fmt" -> ffshim_codecctx_pix_fmt(ctx, c)
    [] fn = "ffshim_codecctx_sample_fmt" -> ffshim_codecctx_sample_fmt(ctx, c)
CtxSet(fn, ctx, c, v) ==
  CASE fn = "ffshim_codecctx_set_width" -> ffshim_codecctx_set_width(ctx, c, v)
    [] fn = "ffshim_codecctx_set_height" -> ffshim_codecctx_set_height(ctx, c, v)
    [] fn = "ffshim_codecctx_set_pix_fmt" -> ffshim_codecctx_set_pix_fmt(ctx, c, v)
    [] fn = "ffshim_codecctx_set_sample_fmt" -> ffshim_codecctx_set_sample_fmt(ctx, c, v)
    [] fn = "ffshim_codecctx_set_ch_layout_default" ->
         ffshim_codecctx_set_ch_layout_default(ctx, c, v)
CtxRatGet(fn, ctx, c, given) ==
  CASE fn = "ffshim_codecctx_time_base" -> ffshim_codecctx_time_base(ctx, c, given)
    [] fn = "ffshim_codecctx_framerate" -> ffshim_codecctx_framerate(ctx, c, given)
CtxRatSet(fn, ctx, c, num, den) ==
  CASE fn = "ffshim_codecctx_set_time_base" -> ffshim_codecctx_set_time_base(ctx, c, num, den)
    [] fn = "ffshim_codecctx_set_framerate" -> ffshim_codecctx_set_framerate(ctx, c, num, den)

\* The field a function reads or writes.
FieldOf(fn) ==
  CASE fn \in {"ffshim_codecctx_width", "ffshim_codecctx_set_width"} -> "width"
    [] fn \in {"ffshim_codecctx_height", "ffshim_codecctx_set_height"} -> "height"
    [] fn \in {"ffshim_codecctx_pix_fmt", "ffshim_codecctx_set_pix_fmt"} -> "pix_fmt"
    [] fn \in {"ffshim_codecctx_sample_fmt", "ffshim_codecctx_set_sample_fmt"} -> "sample_fmt"
    [] fn \in {"ffshim_codecctx_time_base", "ffshim_codecctx_set_time_base"} -> "time_base"
    [] fn \in {"ffshim_codecctx_framerate", "ffshim_codecctx_set_framerate"} -> "framerate"
    [] fn = "ffshim_codecctx_set_ch_layout_default" -> "nb_channels"
Fields == {"width", "height", "pix_fmt", "sample_fmt", "time_base", "framerate", "nb_channels"}

\* The values the caller sets; no setter validates its argument.
SetValues == {-1, 640}
SetRationals == {<<1, 25>>, <<30000, 1001>>}
Handles(h) == {NULL, h}

\* The record of one call: its pointer arguments (given: which output pointers
\* are non-null), its return value as a tuple (empty for a void function),
\* what the output locations hold on return, whether a null pointer was
\* dereferenced and whether the process faulted on it.
NoCall ==
  [fn |-> "none", nullArg |-> FALSE, args |-> <<>>, given |-> <<>>, ret |-> <<>>,
   outs |-> <<>>, deref |-> FALSE, fault |-> FALSE]
CallRec(fn, nullArg, args, given, ret, outs) ==
  [fn |-> fn, nullArg |-> nullArg, args |-> args, given |-> given, ret |-> ret,
   outs |-> outs, deref |-> FALSE, fault |-> FALSE]
Running == ~accLast.call.fault

codecpar_get(fn, par) ==
  /\ Running
  /\ accLast' = [accLast EXCEPT
                   !.call = CallRec(fn, par = NULL, <<>>, <<>>, <<ParGet(fn, par, cpar)>>, <<>>),
                   !.before = cctx]
  /\ UNCHANGED <<cctx, cpar>>

codecctx_get(fn, ctx) ==
  /\ Running
  /\ accLast' = [accLast EXCEPT
                   !.call = CallRec(fn, ctx = NULL, <<>>, <<>>, <<CtxGet(fn, ctx, cctx)>>, <<>>),
                   !.before = cctx]
  /\ UNCHANGED <<cctx, cpar>>

codecctx_set(fn, ctx, v) ==
  /\ Running
  /\ cctx' = CtxSet(fn, ctx, cctx, v)
  /\ accLast' = [call |-> CallRec(fn, ctx = NULL, <<v>>, <<>>, <<>>, <<>>),
                 before |-> cctx,
                 lastSet |-> IF ctx = NULL THEN accLast.lastSet
                             ELSE [accLast.lastSet EXCEPT ![FieldOf(fn)] = <<v>>]]
  /\ UNCHANGED cpar

codecctx_get_rational(fn, ctx, given) ==
  /\ Running
  /\ accLast' = [accLast EXCEPT
                   !.call = CallRec(fn, ctx = NULL \/ ~given[1] \/ ~given[2], <<>>, given,
                                    <<>>, CtxRatGet(fn, ctx, cctx, given)),
                   !.before = cctx]
  /\ UNCHANGED <<cctx, cpar>>

codecctx_set_rational(fn, ctx, q) ==
  /\ Running
  /\ cctx' = CtxRatSet(fn, ctx, cctx, q[1], q[2])
  /\ accLast' = [call |-> CallRec(fn, ctx = NULL, q, <<>>, <<>>, <<>>),
                 before |-> cctx,
                 lastSet |-> IF ctx = NULL THEN accLast.lastSet
                             ELSE [accLast.lastSet EXCEPT ![FieldOf(fn)] = q]]
  /\ UNCHANGED cpar

(***************************************************************************)
(* AVRATIONAL OPERATIONS, AVIO AND AVFRAME HELPERS                         *)
(***************************************************************************)

RECURSIVE GCD(_, _)
GCD(a, b) == IF b = 0 THEN a ELSE GCD(b, a % b)
Abs(x) == IF x < 0 THEN -x ELSE x

\* The native library's reduction of num/den to lowest terms, den positive.
Reduce(num, den) ==
  LET g == GCD(Abs(num), Abs(den))
      sign == IF den < 0 THEN -1 ELSE 1
  IN IF g = 0 THEN <<0, 0>> ELSE <<sign * (num \div g), sign * (den \div g)>>

\* av_mul_q, av_div_q, av_add_q, av_sub_q on a = <<num, den>>, b = <<num, den>>.
av_mul_q(a, b) == Reduce(a[1] * b[1], a[2] * b[2])
av_div_q(a, b) == Reduce(a[1] * b[2], a[2] * b[1])
av_add_q(a, b) == Reduce(a[1] * b[2] + b[1] * a[2], a[2] * b[2])
av_sub_q(a, b) == Reduce(a[1] * b[2] - b[1] * a[2], a[2] * b[2])
\* av_d2q for the doubles the caller passes, named by their decimal text.
av_d2q(d, max_den) == IF d = "0.5" THEN <<1, 2>> ELSE <<1, 4>>

RationalOps == {"ffshim_rational_mul", "ffshim_rational_div", "ffshim_rational_add",
                "ffshim_rational_sub"}
RationalResult(fn, a, b) ==
  CASE fn = "ffshim_rational_mul" -> av_mul_q(a, b)
    [] fn = "ffshim_rational_div" -> av_div_q(a, b)
    [] fn = "ffshim_rational_add" -> av_add_q(a, b)
    [] fn = "ffshim_rational_sub" -> av_sub_q(a, b)
RationalInputs == {<<1, 2>>, <<2, 6>>}
Doubles == {"0.5", "0.25"}

\* Lines 75-76 (and 83-84, 91-92, 99-100, 105-106): the two stores through
\* the output pointers, neither of which is tested.  A store through a null
\* pointer is undefined: the process faults there, or the store is dropped
\* and execution goes on.
StoreOutputs(result, given, fault) ==
  [deref |-> ~given[1] \/ ~given[2],
   fault |-> fault /\ (~given[1] \/ ~given[2]),
   outs |-> << IF given[1] THEN result[1] ELSE Junk,
               IF given[2] /\ (given[1] \/ ~fault) THEN result[2] ELSE Junk >>]

WithEffect(rec, e) == [rec EXCEPT !.deref = e.deref, !.fault = e.fault]

\* ffshim_rational_mul, _div, _add, _sub.
ffshim_rational_op(fn, a, b, given, fault) ==
  /\ Running
  /\ (given[1] /\ given[2]) => ~fault
  /\ LET e == StoreOutputs(RationalResult(fn, a, b), given, fault)
     IN accLast' = [accLast EXCEPT
                      !.call = WithEffect(CallRec(fn, ~given[1] \/ ~given[2], a \o b, given,
                                                  <<>>, e.outs), e),
                      !.before = cctx]
  /\ UNCHANGED <<cctx, cpar>>

ffshim_d2q(d, max_den, given, fault) ==
  /\ Running
  /\ (given[1] /\ given[2]) => ~fault
  /\ LET e == StoreOutputs(av_d2q(d, max_den), given, fault)
     IN accLast' = [accLast EXCEPT
                      !.call = WithEffect(CallRec("ffshim_d2q", ~given[1] \/ ~given[2],
                                                  <<d, max_den>>, given, <<>>, e.outs), e),
                      !.before = cctx]
  /\ UNCHANGED <<cctx, cpar>>

\* ffshim_avio_write_string(avio_ctx, str): strlen(str) reads through str and
\* avio_write writes through avio_ctx, neither of which is tested.  given is
\* <<avio_ctx non-null, str non-null>>; outs is what the stream received.
ffshim_avio_write_string(given, str, fault) ==
  /\ Running
  /\ (given[1] /\ given[2]) => ~fault
  /\ LET deref == ~given[1] \/ ~given[2]
         e == [deref |-> deref, fault |-> fault /\ deref]
         written == IF given[1] /\ given[2] THEN <<str>> ELSE <<>>
     IN accLast' = [accLast EXCEPT
                      !.call = WithEffect(CallRec("ffshim_avio_write_string", deref, <<str>>,
                                                  given, <<>>, written), e),
                      !.before = cctx]
  /\ UNCHANGED <<cctx, cpar>>

\* The offsetof values of the build, in the order of the output pointers.
FrameOffsets == <<"offsetof(color_range)", "offsetof(colorspace)",
                  "offsetof(color_primaries)", "offsetof(color_trc)">>
NoOffsets == <<"junk", "junk", "junk", "junk">>

ffshim_avframe_color_offsets(given) ==
  /\ Running
  /\ LET anyNull == \E i \in 1..4 : ~given[i]
     IN accLast' = [accLast EXCEPT
                      !.call = CallRec("ffshim_avframe_color_offsets", anyNull, <<>>, given,
                                       IF anyNull THEN <<-1>> ELSE <<0>>,
                                       IF anyNull THEN NoOffsets ELSE FrameOffsets),
                      !.before = cctx]
  /\ UNCHANGED <<cctx, cpar>>

\* ffshim_new_chapter with a null context: recorded here, with the context
\* and the heap as the call leaves them.
new_chapter_null_ctx(a, alloc) ==
  /\ Running
  /\ LET r == NewChapter(fc, heap, nextHandle, NULL, [a EXCEPT !.meta = NullPtr], alloc)
     IN /\ fc' = r.fc /\ heap' = r.heap /\ nextHandle' = r.nextHandle
        /\ accLast' = [accLast EXCEPT
                         !.call = CallRec("ffshim_new_chapter", TRUE, <<a.id>>, <<FALSE>>,
                                          <<r.call.ret>>, <<>>),
                         !.before = cctx]
  /\ UNCHANGED <<cctx, cpar, chCalls>>

\* ffshim_avdevice_list_input_sources with a null output pointer: recorded
\* here, with the registration flag as the call leaves it.
list_input_sources_null_out(format_name, outs) ==
  /\ Running
  /\ ~(outs.count /\ outs.names /\ outs.descs)
  /\ LET r == ListInputSources(format_name, NULL, outs, g_avdevice_registered, 0,
                               NullList, AllocOk)
     IN /\ g_avdevice_registered' = r.flag
        /\ registerCalls' = registerCalls + Count(r.trace, "avdevice_register_all")
        /\ accLast' = [accLast EXCEPT
                         !.call = CallRec("ffshim_avdevice_list_input_sources", TRUE,
                                          <<format_name>>,
                                          <<outs.count, outs.names, outs.descs>>,
                                          <<r.ret>>,
                                          <<r.out.out_count, Len(r.out.out_names.elems),
                                            Len(r.out.out_descs.elems)>>),
                         !.before = cctx]
  /\ UNCHANGED <<cctx, cpar, devCalls, devLast>>

AccInit ==
  /\ cctx = [width |-> 0, height |-> 0, pix_fmt |-> -1, sample_fmt |-> -1,
             time_base |-> <<0, 1>>, framerate |-> <<0, 1>>, nb_channels |-> 0]
  /\ cpar = [width |-> 1920, height |-> 1080, format |-> 3, sample_rate |-> 48000,
             nb_channels |-> 2]
  /\ accLast = [call |-> NoCall, before |-> cctx, lastSet |-> [f \in Fields |-> <<>>]]


InitFmt == LogInit /\ ChInit /\ DevInit /\ AccInit
NextFmt ==
  \/ \E cb \in Sinks \cup {NULL} : ffshim_log_set_callback(cb) /\ UNCHANGED <<chVars, devVars, accVars>>
  \/ \E m \in Msgs : ffshim_log(m) /\ UNCHANGED <<chVars, devVars, accVars>>
SpecFmt == InitFmt /\ [][NextFmt]_vars

InitLog == LogInit /\ ChInit /\ DevInit /\ AccInit
NextLog ==
  \/ \E m \in RaceMsgs : log_enter(m) /\ UNCHANGED <<chVars, devVars, accVars>>
  \/ \E m \in RaceMsgs : log_default(m) /\ UNCHANGED <<chVars, devVars, accVars>>
  \/ log_test /\ UNCHANGED <<chVars, devVars, accVars>>
  \/ log_format /\ UNCHANGED <<chVars, devVars, accVars>>
  \/ log_call /\ UNCHANGED <<chVars, devVars, accVars>>
  \/ \E cb \in Sinks \cup {NULL} : set_store(cb) /\ UNCHANGED <<chVars, devVars, accVars>>
  \/ set_install /\ UNCHANGED <<chVars, devVars, accVars>>
SpecLog == InitLog /\ [][NextLog]_vars

InitChapter == LogInit /\ ChInit /\ DevInit /\ AccInit
NextChapter ==
  \E ctx \in {NULL, "fc"}, a \in ChapterArgs, alloc \in AllocOutcomes :
    ffshim_new_chapter(ctx, a, alloc) /\ UNCHANGED <<logVars, devVars, accVars>>
SpecChapter == InitChapter /\ [][NextChapter]_vars

InitDevice == LogInit /\ ChInit /\ DevInit /\ AccInit
AllOuts == [count |-> TRUE, names |-> TRUE, descs |-> TRUE]
NextDevice ==
  \* a null output pointer
  \/ \E format_name \in FormatNames,
        outs \in [count : BOOLEAN, names : BOOLEAN, descs : BOOLEAN] \ {AllOuts} :
       ffshim_avdevice_list_input_sources(format_name, NULL, outs, 0, NullList, AllocOk)
         /\ UNCHANGED <<logVars, chVars, accVars>>
  \* a format name that is null, empty or unknown
  \/ \E format_name \in FormatNames \ KnownFormats :
       ffshim_avdevice_list_input_sources(format_name, NULL, AllOuts, 0, NullList, AllocOk)
         /\ UNCHANGED <<logVars, chVars, accVars>>
  \* the native enumeration fails, or reports no devices
  \/ \E format_name \in KnownFormats, device_name \in DeviceNames,
        nret \in NativeRets, nlist \in NativeLists :
       /\ nret < 0 \/ nlist.nb_devices <= 0
       /\ ffshim_avdevice_list_input_sources(format_name, device_name, AllOuts, nret,
                                             nlist, AllocOk)
       /\ UNCHANGED <<logVars, chVars, accVars>>
  \* the native enumeration reports devices
  \/ \E format_name \in KnownFormats, nret \in NativeRets, nlist \in NativeLists,
        env \in AllocEnvs :
       /\ nret >= 0 /\ nlist.nb_devices > 0
       /\ env.strdupFail <= nlist.nb_devices
       /\ ffshim_avdevice_list_input_sources(format_name, NULL, AllOuts, nret, nlist, env)
       /\ UNCHANGED <<logVars, chVars, accVars>>
SpecDevice == InitDevice /\ [][NextDevice]_vars

InitAccess == LogInit /\ ChInit /\ DevInit /\ AccInit
NextAccess ==
  \/ \E fn \in ParGetters, par \in Handles("par") :
       codecpar_get(fn, par) /\ UNCHANGED <<logVars, chVars, devVars>>
  \/ \E fn \in CtxGetters, ctx \in Handles("ctx") :
       codecctx_get(fn, ctx) /\ UNCHANGED <<logVars, chVars, devVars>>
  \/ \E fn \in CtxSetters, ctx \in Handles("ctx"), v \in SetValues :
       codecctx_set(fn, ctx, v) /\ UNCHANGED <<logVars, chVars, devVars>>
  \/ \E fn \in CtxRatGetters, ctx \in Handles("ctx"), given \in BOOLEAN \X BOOLEAN :
       codecctx_get_rational(fn, ctx, given) /\ UNCHANGED <<logVars, chVars, devVars>>
  \/ \E fn \in CtxRatSetters, ctx \in Handles("ctx"), q \in SetRationals :
       codecctx_set_rational(fn, ctx, q) /\ UNCHANGED <<logVars, chVars, devVars>>
SpecAccess == InitAccess /\ [][NextAccess]_vars

\* Every pointer-taking function called with at least one null pointer.
InitNull == LogInit /\ ChInit /\ DevInit /\ AccInit
NextNull ==
  \/ \E fn \in ParGetters :
       codecpar_get(fn, NULL) /\ UNCHANGED <<logVars, chVars, devVars>>
  \/ \E fn \in CtxGetters :
       codecctx_get(fn, NULL) /\ UNCHANGED <<logVars, chVars, devVars>>
  \/ \E fn \in CtxSetters, v \in SetValues :
       codecctx_set(fn, NULL, v) /\ UNCHANGED <<logVars, chVars, devVars>>
  \/ \E fn \in CtxRatGetters, ctx \in Handles("ctx"), given \in BOOLEAN \X BOOLEAN :
       /\ ctx = NULL \/ ~given[1] \/ ~given[2]
       /\ codecctx_get_rational(fn, ctx, given)
       /\ UNCHANGED <<logVars, chVars, devVars>>
  \/ \E fn \in CtxRatSetters, q \in SetRationals :
       codecctx_set_rational(fn, NULL, q) /\ UNCHANGED <<logVars, chVars, devVars>>
  \/ \E fn \in RationalOps, a, b \in RationalInputs, given \in BOOLEAN \X BOOLEAN,
        fault \in BOOLEAN :
       /\ ~given[1] \/ ~given[2]
       /\ ffshim_rational_op(fn, a, b, given, fault)
       /\ UNCHANGED <<logVars, chVars, devVars>>
  \/ \E d \in Doubles, given \in BOOLEAN \X BOOLEAN, fault \in BOOLEAN :
       /\ ~given[1] \/ ~given[2]
       /\ ffshim_d2q(d, 100, given, fault)
       /\ UNCHANGED <<logVars, chVars, devVars>>
  \/ \E given \in BOOLEAN \X BOOLEAN, str \in {"", "title"}, fault \in BOOLEAN :
       /\ ~given[1] \/ ~given[2]
       /\ ffshim_avio_write_string(given, str, fault)
       /\ UNCHANGED <<logVars, chVars, devVars>>
  \/ \E given \in BOOLEAN \X BOOLEAN \X BOOLEAN \X BOOLEAN :
       /\ \E i \in 1..4 : ~given[i]
       /\ ffshim_avframe_color_offsets(given)
       /\ UNCHANGED <<logVars, chVars, devVars>>
  \/ \E a \in ChapterArgs, alloc \in AllocOutcomes :
       new_chapter_null_ctx(a, alloc) /\ UNCHANGED <<logVars, devVars>>
  \/ \E format_name \in FormatNames,
        outs \in [count : BOOLEAN, names : BOOLEAN, descs : BOOLEAN] :
       list_input_sources_null_out(format_name, outs) /\ UNCHANGED <<logVars, chVars>>
SpecNull == InitNull /\ [][NextNull]_vars

(***************************************************************************)
(* PROPERTIES                                                              *)
(***************************************************************************)

EndsNL(m) == StrLen(m) > 0 /\ CharAt(m, StrLen(m)) = NL

\* C3: the string a sink receives is the formatted message less one trailing
\* newline when the message fits the buffer and ends in a newline, the message
\* itself when it fits and does not, and the first BufSize-1 characters of the
\* message when it does not fit; a message ending in two newlines keeps one.
C3_SinkReceives ==
  delivery # NoDelivery =>
    LET m == delivery.raw
        L == StrLen(m)
    IN /\ delivery.sink \in Sinks
       /\ (L < BufSize /\ EndsNL(m)) => delivery.out = Prefix(m, L - 1)
       /\ (L < BufSize /\ ~EndsNL(m)) => delivery.out = m
       /\ L >= BufSize => delivery.out = Prefix(m, BufSize - 1)
       /\ (L < BufSize /\ L >= 2 /\ EndsNL(m) /\ CharAt(m, L - 1) = NL) => EndsNL(delivery.out)

C3_Witness ==
  /\ delivery # NoDelivery
  /\ StrLen(delivery.raw) = BufSize - 1
  /\ delivery.raw.tail = <<NL, NL>>
  /\ StrLen(delivery.out) = BufSize - 2

\* C4: once ffshim_log_set_callback has returned, the global holds its
\* argument and the native library holds the internal callback for a non-null
\* argument and its default callback for a null one; a message logged after
\* the last call returned is handed to that call's sink and to no other; and
\* internal_log_callback invokes nothing when it finds no sink.
C4_LastCallDecides ==
  /\ (setPc = "idle" /\ lastCb # "none") =>
        /\ g_log_callback = lastCb
        /\ lastCb # NULL => av_log_callback = "internal"
        /\ lastCb = NULL => av_log_callback = "default"
  /\ (logOutcome.tested # "none" /\ logOutcome.begun) =>
        /\ logOutcome.invoked = logOutcome.current
        /\ logOutcome.invoked \in Sinks
  /\ logOutcome.tested = NULL => logOutcome.invoked = "nothing"

C4_Witness ==
  /\ setPc = "idle" /\ lastCb = NULL /\ av_log_callback = "default"
  /\ delivery.sink \in Sinks
  /\ logOutcome.tested = NULL

\* C10 as stated: whatever the interleaving, the pointer called at line 44 is
\* the non-null value tested at line 32.
C10_NeverCallsNull ==
  logOutcome.invoked # "nothing" =>
    /\ logOutcome.invoked # NULL
    /\ logOutcome.invoked = logOutcome.tested

\* C10 amended: when no store to g_log_callback falls between the test at
\* line 32 and the call at line 44, the pointer called is the non-null value
\* tested.
C10_CleanRunCallsTested ==
  (logOutcome.invoked # "nothing" /\ logOutcome.clean) =>
    /\ logOutcome.invoked # NULL
    /\ logOutcome.invoked = logOutcome.tested

C10_Witness ==
  /\ logOutcome.clean /\ ~logOutcome.begun
  /\ logOutcome.invoked \in Sinks

IsOk(c) == c.ret # NullPtr

\* C1: the context holds exactly the chapters the successful calls returned,
\* in call order, and each chapter's fields are the arguments of its call.
C1_ChaptersInAppendOrder ==
  LET ok == SelectSeq(chCalls, IsOk)
  IN /\ fc.nb_chapters = Len(ok)
     /\ Len(fc.chapters) = Len(ok)
     /\ \A i \in 1..Len(ok) :
          /\ fc.chapters[i] = ok[i].ret
          /\ heap[ok[i].ret] =
               [id |-> ok[i].args.id, tb_num |-> ok[i].args.tb_num,
                tb_den |-> ok[i].args.tb_den, start |-> ok[i].args.start,
                end |-> ok[i].args.end, metadata |-> ok[i].args.meta, live |-> TRUE]

C1_Witness ==
  /\ fc.nb_chapters = MaxChCalls
  /\ \E i, j \in 1..Len(chCalls) : chCalls[i].args.id # chCalls[j].args.id

\* C7: a call returns null exactly when the context is null or one of the two
\* allocations fails, and then the context is as it was; after a failed
\* reallocation the chapter record is freed and the metadata passed is still
\* allocated and in no chapter of the context.
C7_FailureLeavesContext ==
  /\ \A i \in 1..Len(chCalls) :
       LET c == chCalls[i]
       IN /\ c.ret = NullPtr <=> (c.ctx = NULL \/ c.malloc = "fail" \/ c.realloc = "fail")
          /\ c.realloc = "fail" =>
               /\ ~heap[c.ch].live
               /\ c.args.meta # NullPtr =>
                    /\ heap[c.args.meta].live
                    /\ \A k \in 1..fc.nb_chapters :
                         heap[fc.chapters[k]].metadata # c.args.meta
  /\ (chCalls # <<>> /\ chCalls[Len(chCalls)].ret = NullPtr) =>
       fc = chCalls[Len(chCalls)].before

C7_Witness ==
  /\ Len(chCalls) >= 2
  /\ fc.nb_chapters >= 1
  /\ LET c == chCalls[Len(chCalls)]
     IN c.realloc = "fail" /\ c.args.meta # NullPtr

Called == devCalls > 0
OutsGiven == devLast.outs.count /\ devLast.outs.names /\ devLast.outs.descs
Zeroed ==
  /\ devLast.out.out_count = 0
  /\ devLast.out.out_names = NullArr
  /\ devLast.out.out_descs = NullArr
Frees == Count(devLast.trace, "avdevice_free_list_devices")

\* C5: with output pointers given, a format name that is null, empty or not
\* known to the format lookup yields AVERROR(EINVAL), a zero count and two
\* null arrays, and the native enumeration is not called.
C5_BadFormatIsEinval ==
  (Called /\ OutsGiven /\ devLast.format_name \notin KnownFormats) =>
    /\ devLast.ret = AVERROR_EINVAL
    /\ Zeroed
    /\ Count(devLast.trace, "avdevice_list_input_sources") = 0
    /\ ~devLast.native.called

C5_Witness ==
  /\ Called /\ OutsGiven
  /\ devLast.format_name = "nosuch"
  /\ devLast.trace = <<"av_find_input_format">>
  /\ devLast.ret = AVERROR_EINVAL

\* C8: avdevice_register_all runs at most once; it has run exactly when some
\* call has had its outputs and a non-empty format name, it runs in the first
\* such call ahead of the format lookup, and in no call after that.
C8_RegistersOnce ==
  /\ registerCalls <= 1
  /\ registerCalls = 1 <=> devLast.reachedEver
  /\ g_avdevice_registered = registerCalls
  /\ Count(devLast.trace, "av_find_input_format") = 1 =>
       IF devLast.registeredBefore = 0
       THEN /\ Len(devLast.trace) >= 2
            /\ devLast.trace[1] = "avdevice_register_all"
            /\ devLast.trace[2] = "av_find_input_format"
            /\ Count(devLast.trace, "avdevice_register_all") = 1
       ELSE Count(devLast.trace, "avdevice_register_all") = 0
  /\ Count(devLast.trace, "av_find_input_format") = 0 =>
       Count(devLast.trace, "avdevice_register_all") = 0

C8_Witness ==
  /\ Called /\ registerCalls = 1
  /\ devLast.registeredBefore = 1
  /\ devLast.native.called
  /\ devLast.trace[1] = "av_find_input_format"

C6_GetReturnsLastSet ==
  LET c == accLast.call
      f == FieldOf(c.fn)
      both == <<TRUE, TRUE>>
  IN /\ (c.fn \in CtxSetters \ {"ffshim_codecctx_set_ch_layout_default"} /\ ~c.nullArg) =>
          /\ CtxGet(CHOOSE g \in CtxGetters : FieldOf(g) = f, "ctx", cctx) = c.args[1]
          /\ \A o \in Fields \ {f} : cctx[o] = accLast.before[o]
     /\ (c.fn \in CtxRatSetters /\ ~c.nullArg) =>
          /\ CtxRatGet(CHOOSE g \in CtxRatGetters : FieldOf(g) = f, "ctx", cctx, both) = c.args
          /\ \A o \in Fields \ {f} : cctx[o] = accLast.before[o]
     /\ (c.fn \in CtxGetters /\ ~c.nullArg /\ accLast.lastSet[f] # <<>>) =>
          c.ret = accLast.lastSet[f]
     /\ (c.fn \in CtxRatGetters /\ ~c.nullArg /\ accLast.lastSet[f] # <<>>) =>
          c.outs = accLast.lastSet[f]

C6_Witness ==
  /\ accLast.call.fn = "ffshim_codecctx_framerate"
  /\ ~accLast.call.nullArg
  /\ accLast.call.outs = <<30000, 1001>>
  /\ accLast.lastSet["time_base"] = <<1, 25>>
  /\ accLast.lastSet["height"] = <<640>>
  /\ accLast.lastSet["width"] = <<-1>>

\* The value each function is documented to return for a null pointer
\* argument; the empty tuple for a function returning nothing.
Sentinel(fn) ==
  CASE fn \in {"ffshim_codecpar_width", "ffshim_codecpar_height",
               "ffshim_codecpar_sample_rate", "ffshim_codecpar_channels",
               "ffshim_codecctx_width", "ffshim_codecctx_height"} -> <<0>>
    [] fn \in {"ffshim_codecpar_format", "ffshim_codecctx_pix_fmt",
               "ffshim_codecctx_sample_fmt", "ffshim_avframe_color_offsets"} -> <<-1>>
    [] fn = "ffshim_new_chapter" -> <<NullPtr>>
    [] fn = "ffshim_avdevice_list_input_sources" -> <<AVERROR_EINVAL>>
    [] OTHER -> <<>>

\* C2: a call with a null pointer argument returns the function's sentinel,
\* dereferences no null pointer, does not fault, and leaves the codec context
\* as it was.
C2_NullIsSafe ==
  (accLast.call.fn # "none" /\ accLast.call.nullArg) =>
    /\ accLast.call.ret = Sentinel(accLast.call.fn)
    /\ ~accLast.call.deref
    /\ ~accLast.call.fault
    /\ cctx = accLast.before

====
